---- MODULE Spec2Model ----
(***************************************************************************)
(* A model of robusta's SupabaseDal                                        *)
(* (src/robusta/core/sinks/robusta/dal/supabase_dal.py): the rate-limited  *)
(* sign-in, the error-triggered re-authentication, the response            *)
(* normalizers and the caller-facing operations built on them.             *)
(*                                                                         *)
(* Spec     : one caller thread issuing operations one after another, the  *)
(*            clock, the identity service and the token-refresh timer as   *)
(*            environment.                                                 *)
(* SpecAuth : RobustaClient._get_auth_headers racing with the timer        *)
(*            thread that replaces the cached session.                     *)
(***************************************************************************)
EXTENDS Integers, Sequences, FiniteSets, TLC

(***************************************************************************)
(* Program constants.                                                      *)
(***************************************************************************)
SERVICES_TABLE == "Services"
NODES_TABLE == "Nodes"
EVIDENCE_TABLE == "Evidence"
ISSUES_TABLE == "Issues"
CLUSTERS_STATUS_TABLE == "ClustersStatus"
JOBS_TABLE == "Jobs"
HELM_RELEASES_TABLE == "HelmReleases"
NAMESPACES_TABLE == "Namespaces"
UPDATE_CLUSTER_NODE_COUNT == "update_cluster_node_count"
INSERT_SCAN_META == "insert_scan_meta"
SCANS_RESULT_TABLE == "ScansResults"

\* The cooldown between two sign-ins, in clock units (configured by the
\* environment variable of the same name; any positive value is a legal
\* configuration).
SUPABASE_LOGIN_RATE_LIMIT_SEC == 2

(***************************************************************************)
(* Bounds of the model.                                                    *)
(***************************************************************************)
\* The clock advances at most MaxTick units past the construction time.
MaxTick == 3
\* The system clock is set at most MaxSkew units ahead of or behind the
\* time that really passed.
MaxSkew == 2
\* The longest list handed to a publish operation.
MaxList == 1
\* The size of a finding: its enrichments plus the blocks of its scan
\* enrichments.
MaxFinding == 3

(***************************************************************************)
(* The environment: clock, gateway, identity service.                      *)
(***************************************************************************)
\* time.time() at construction: seconds since the epoch, far beyond the
\* cooldown.
Epoch == SUPABASE_LOGIN_RATE_LIMIT_SEC + 1
Times == Epoch .. (Epoch + MaxTick)

\* HTTP statuses the gateway answers with: every member of an expected
\* set of the code, and three failures.
Statuses == {200, 201, 202, 204, 401, 404, 500}
\* Response bodies: empty, valid JSON, not parseable as JSON.
Bodies == {"", "json", "text"}

\* What a sign-in round-trip can end in: the identity service accepts the
\* credentials, rejects them, or the call raises; and, when it fails,
\* whether the auth client keeps the session it had (the client library's
\* choice).
IdentityOutcomes ==
    {[result |-> "ok", keeps |-> FALSE]}
        \cup [result : {"rejected", "error"}, keeps : BOOLEAN]
\* The HTTP responses of the gateway.
Responses == [status_code : Statuses, body : Bodies]

\* auth.current_session: no session, a session whose token the gateway
\* accepts, a session whose token has expired.
Sessions == {"none", "valid", "expired"}

VARIABLES
    phase,            \* "new" | "ready" | "failed": SupabaseDal.__init__
    now,              \* the reading of time.time()
    sign_in_time,     \* self.sign_in_time
    session,          \* self.client.auth.current_session
    pc,               \* the caller thread: "idle" | "running" | "done"
    op,               \* the operation in progress or just finished
    arg,              \* its argument (list length, job, finding)
    frame,            \* persist_finding's position: stage and loop indices
    trace,            \* the events of the current call, in order
    mark,             \* Len(trace) before the latest step of the call
    res,              \* the last response (`res` in the code) and its raw form
    outcome,          \* "" | "returned" | the exception raised to the caller
    last_round_trip,  \* history: the clock at the last identity round-trip, -1 if none
    real,             \* the time that really passed since the process started
    last_round_trip_real,  \* history: `real` at the last identity round-trip, -1 if none
    current_session,  \* SpecAuth: auth.current_session, token included
    rd,               \* SpecAuth: the request-building thread in _get_auth_headers
    headers,          \* SpecAuth: the headers it produced last
    issued,           \* SpecAuth: the number of tokens issued so far
    thr               \* SpecRace: where each thread is in handle_supabase_error

vars == <<phase, now, sign_in_time, session, pc, op, arg, frame, trace,
          mark, res, outcome, last_round_trip, real, last_round_trip_real,
          current_session, rd, headers, issued, thr>>

dalVars == <<phase, now, sign_in_time, session, pc, op, arg, frame,
             trace, mark, res, outcome, last_round_trip, real,
             last_round_trip_real>>
authVars == <<current_session, rd, headers, issued>>
raceVars == <<thr>>

\* The threads that share one SupabaseDal in SpecRace.
Threads == {"t1", "t2"}

(***************************************************************************)
(* Events of a call.                                                       *)
(***************************************************************************)
Ev(e) == [e |-> e, table |-> "", verb |-> "", item |-> <<>>, bearer |-> "",
          scope |-> {}]
\* A request, with the tenant columns of the rows it writes or of the
\* filter it carries.
Req(table, verb, item, scope, bearer) ==
    [e |-> "request", table |-> table, verb |-> verb, item |-> item,
     bearer |-> bearer, scope |-> scope]

NoRes == [table |-> "", verb |-> "", status_code |-> 0, data |-> "",
          http_status |-> 0, body |-> ""]
NoFrame == [stage |-> "", i |-> 0, j |-> 0]

\* The locals a handler threads through its statements: the fields it
\* writes, the events so far, the last response and the pending exception.
Entry == [sign_in_time |-> sign_in_time, session |-> session,
          trace |-> trace, res |-> res, exc |-> ""]

(***************************************************************************)
(* The cached session as the threads of SpecAuth see it. An access token   *)
(* is a pair of halves, so that a token put together from two sessions is  *)
(* a value of the model: the n-th token issued is <<n, n>>.                *)
(***************************************************************************)
\* The most tokens the identity service issues.
MaxTokens == 3

None == [present |-> FALSE, access_token |-> <<0, 0>>]
Session(n) == [present |-> TRUE, access_token |-> <<n, n>>]
supabase_key == <<0, 0>>

NoReader == [pc |-> "idle", session |-> None, access_token |-> <<0, 0>>,
             window |-> {}]
NoHeaders == [apiKey |-> supabase_key, Authorization |-> supabase_key,
              first |-> None, window |-> {None}]

(***************************************************************************)
(* RobustaClient._get_auth_headers, read by one thread: the bearer is the  *)
(* session's access token when there is a session, else the API key.       *)
(***************************************************************************)
_get_auth_headers(sess) == IF sess # "none" THEN sess ELSE "key"

\* The gateway rejects an expired token; otherwise any status may come back.
GatewayResponses(bearer) ==
    IF bearer = "expired"
    THEN {r \in Responses : r.status_code = 401 /\ r.body = "json"}
    ELSE Responses
\* The responses to a request sent through the client's own execute(),
\* whose body handling is the client library's.
ExecuteResponses(bearer) == {r \in GatewayResponses(bearer) : r.body = "json"}

(***************************************************************************)
(* SupabaseDal.sign_in: the round-trip happens when the clock is past the  *)
(* last attempt plus the cooldown; sign_in_time is written before the      *)
(* identity service is called, whose outcome is `id`.                      *)
(***************************************************************************)
sign_in_late(s, id) ==
    LET s0 == [s EXCEPT !.trace = Append(@, Ev("sign_in"))]
    IN  IF now > s.sign_in_time + SUPABASE_LOGIN_RATE_LIMIT_SEC
        THEN [s0 EXCEPT
                !.sign_in_time = IF id.result = "error" THEN @ ELSE now,
                !.trace = Append(@, [Ev("identity") EXCEPT !.verb = id.result]),
                !.session = IF id.result = "ok" THEN "valid"
                            ELSE IF id.keeps THEN @ ELSE "none",
                !.exc = IF id.result = "error" THEN "AuthError" ELSE @]
        ELSE s0

sign_in(s, id) ==
    LET s0 == [s EXCEPT !.trace = Append(@, Ev("sign_in"))]
    IN  IF now > s.sign_in_time + SUPABASE_LOGIN_RATE_LIMIT_SEC
        THEN [s0 EXCEPT
                !.sign_in_time = now,
                !.trace = Append(@, [Ev("identity") EXCEPT !.verb = id.result]),
                !.session = IF id.result = "ok" THEN "valid"
                            ELSE IF id.keeps THEN @ ELSE "none",
                !.exc = IF id.result = "error" THEN "AuthError" ELSE @]
        ELSE s0

(***************************************************************************)
(* SupabaseDal.handle_supabase_error: sign_in inside try/except Exception. *)
(***************************************************************************)
handle_supabase_error_unguarded(s, id) ==
    sign_in([s EXCEPT !.trace = Append(@, Ev("handle_supabase_error"))], id)

handle_supabase_error_log_only(s, id) ==
    [s EXCEPT !.trace = Append(Append(@, Ev("handle_supabase_error")), Ev("log"))]

handle_supabase_error(s, id) ==
    LET r == sign_in([s EXCEPT !.trace = Append(@, Ev("handle_supabase_error"))],
                     id)
    IN  IF r.exc # ""
        THEN [r EXCEPT !.exc = "", !.trace = Append(@, Ev("log"))]
        ELSE r

\* logging.error(...)
log(s) == [s EXCEPT !.trace = Append(@, Ev("log"))]
\* raise Exception(...): reached only when nothing was raised before it.
raise(s) ==
    IF s.exc # "" THEN s
    ELSE [s EXCEPT !.exc = "Exception", !.trace = Append(@, Ev("raise"))]

(***************************************************************************)
(* The tenant of the rows and filters of a request. A row or a filter is   *)
(* modelled by its tenant columns; a request by the set of them.           *)
(***************************************************************************)
\* self.account_id, self.cluster: set by __init__, never written again.
account_id == "account_id"
cluster == "cluster_name"

Scoped(account, cluster_id) == [account_id |-> account, cluster |-> cluster_id]

\* db_x["account_id"] = self.account_id; db_x["cluster_id"] = self.cluster
to_service(service) == Scoped(account_id, cluster)
__to_db_node(node) == Scoped(account_id, cluster)
__to_db_job(job) == Scoped(account_id, cluster)
__to_db_helm_release(helm_release) == Scoped(account_id, cluster)
__to_db_namespace(namespace) == Scoped(account_id, cluster)
__to_db_scanResult(scanResult) == Scoped(account_id, cluster)
\* The rows of a list of wire rows, as the request carries them.
Rows(db_rows) == {db_rows[k] : k \in DOMAIN db_rows}

\* db_cluster_status = data.dict(): the tenant columns are those of the
\* ClusterStatus handed in; none is set from self.
to_db_cluster_status(data) == Scoped(data.account_id, data.cluster_id)

\* .filter("account_id", "eq", self.account_id).filter("cluster", "eq",
\* self.cluster), and the .eq(...) of the delete.
filter == {Scoped(account_id, cluster)}
\* The "_account_id" and "_cluster" of the parameters of an RPC.
params == {Scoped(account_id, cluster)}
\* ModelConversion.to_evidence_json(account_id=self.account_id,
\* cluster_id=self.cluster, ...) and to_finding_json(self.account_id,
\* self.cluster, finding).
to_evidence_json == {Scoped(account_id, cluster)}
to_finding_json == {Scoped(account_id, cluster)}

(***************************************************************************)
(* Sending a request: the event, and the result the handler sees.          *)
(***************************************************************************)
Sent(s, table, verb, item, scope, response, result) ==
    [s EXCEPT
        !.trace = Append(@, Req(table, verb, item, scope,
                                _get_auth_headers(s.session))),
        !.res = [table |-> table, verb |-> verb,
                 status_code |-> result.status_code, data |-> result.data,
                 http_status |-> response.status_code, body |-> response.body],
        !.exc = result.exc]

\* self.client.table(T).<verb>(...).execute()
execute_retrying(s, table, verb, item, scope, response) ==
    LET once == Sent(s, table, verb, item, scope, response,
                     [status_code |-> response.status_code, data |-> "rows",
                      exc |-> ""])
    IN  IF response.status_code \in {200, 201} THEN once
        ELSE Sent(once, table, verb, item, scope, response,
                  [status_code |-> response.status_code, data |-> "rows",
                   exc |-> ""])

execute(s, table, verb, item, scope, response) ==
    Sent(s, table, verb, item, scope, response,
         [status_code |-> response.status_code, data |-> "rows", exc |-> ""])

(***************************************************************************)
(* The response normalizers.                                               *)
(***************************************************************************)
\* response.json(): the parsed body, or an exception.
json(body) ==
    IF body = "json" THEN [value |-> "parsed", exc |-> ""]
    ELSE [value |-> "", exc |-> "JSONDecodeError"]

__delete_patch_masking(response) ==
    LET parsed == json(response.body)
    IN  [data |-> IF parsed.exc = "" THEN parsed.value ELSE "",
         status_code |-> IF parsed.exc = "" THEN response.status_code ELSE 200,
         exc |-> ""]

\* SupabaseDal.__delete_patch: response_data = "", then try response.json().
__delete_patch(response) ==
    LET parsed == json(response.body)
    IN  [data |-> IF parsed.exc = "" THEN parsed.value ELSE "",
         status_code |-> response.status_code,
         exc |-> ""]

\* SupabaseDal.__rpc_patch: response_data = {}, parsed only when the
\* response has content.
__rpc_patch(response) ==
    LET parsed == IF response.body # "" THEN json(response.body)
                  ELSE [value |-> "{}", exc |-> ""]
    IN  [data |-> IF parsed.exc = "" THEN parsed.value ELSE "{}",
         status_code |-> response.status_code,
         exc |-> ""]

RpcTable(func_name) == "rpc/" \o func_name

(***************************************************************************)
(* Inputs of the operations.                                               *)
(***************************************************************************)
\* The lists handed to the publish operations.
Lists == UNION {[1..n -> {"entity"}] : n \in 0..MaxList}
\* remove_deleted_job's argument: a job, or None.
Jobs == {"job", "None"}
\* publish_cluster_status's argument: a ClusterStatus, with the account_id
\* and cluster_id its maker gave it.
ClusterStatuses ==
    [account_id : {account_id, "another_account"},
     cluster_id : {cluster, "another_cluster"}]

\* An enrichment: its SCAN annotation and its blocks.
BlockLists == UNION {[1..n -> {"ScanReportBlock", "MarkdownBlock"}] :
                        n \in 0..(MaxFinding - 1)}
Enrichments ==
    {[scan |-> FALSE, blocks |-> <<>>]}
        \cup {[scan |-> TRUE, blocks |-> b] : b \in BlockLists}

RECURSIVE Size(_)
Size(finding) ==
    IF finding = <<>> THEN 0
    ELSE 1 + Len(Head(finding).blocks) + Size(Tail(finding))

Findings ==
    {f \in UNION {[1..n -> Enrichments] : n \in 0..MaxFinding} :
        Size(f) <= MaxFinding}

(***************************************************************************)
(* persist_finding's split of the enrichments, and the loops over them.    *)
(***************************************************************************)
Scans(finding) == SelectSeq(finding, LAMBDA enrich : enrich.scan)
NonScans(finding) == SelectSeq(finding, LAMBDA enrich : ~enrich.scan)

\* The first ScanReportBlock at or after block j of scan i, in loop order:
\* <<0, 0>> when there is none.
RECURSIVE NextScanBlock(_, _, _)
NextScanBlock(scans, i, j) ==
    IF i > Len(scans) THEN <<0, 0>>
    ELSE IF j > Len(scans[i].blocks) THEN NextScanBlock(scans, i + 1, 1)
    ELSE IF scans[i].blocks[j] = "ScanReportBlock" THEN <<i, j>>
    ELSE NextScanBlock(scans, i, j + 1)

AfterScans_always_issue(finding) ==
    IF Len(NonScans(finding)) > 0
    THEN [stage |-> "evidence", i |-> 1, j |-> 0]
    ELSE [stage |-> "issue", i |-> 0, j |-> 0]

\* After the scans: the early return, the evidence loop, or the issue row.
AfterScans(finding) ==
    IF Len(Scans(finding)) > 0 /\ Len(NonScans(finding)) = 0
    THEN [stage |-> "return", i |-> 0, j |-> 0]
    ELSE IF Len(NonScans(finding)) > 0
    THEN [stage |-> "evidence", i |-> 1, j |-> 0]
    ELSE [stage |-> "issue", i |-> 0, j |-> 0]

\* Where persist_finding goes from block j of scan i (exclusive).
ScanFrom(finding, i, j) ==
    LET p == NextScanBlock(Scans(finding), i, j)
    IN  IF p # <<0, 0>>
        THEN [stage |-> "scan_insert", i |-> p[1], j |-> p[2]]
        ELSE AfterScans(finding)

(***************************************************************************)
(* The caller thread: entering a call, ending a step.                      *)
(***************************************************************************)
HasEvent(events, e) == \E k \in 1..Len(events) : events[k].e = e

Call(name, a) ==
    /\ phase = "ready"
    /\ pc = "idle"
    /\ op' = name
    /\ arg' = a
    /\ UNCHANGED phase

\* The handler's step leaves the locals s; the call goes on at `fr`.
Continue(s, fr) ==
    /\ pc' = "running"
    /\ frame' = fr
    /\ sign_in_time' = s.sign_in_time
    /\ session' = s.session
    /\ trace' = s.trace
    /\ mark' = Len(trace)
    /\ res' = s.res
    /\ outcome' = ""
    /\ last_round_trip' =
          IF HasEvent(SubSeq(s.trace, Len(trace) + 1, Len(s.trace)), "identity")
          THEN now ELSE last_round_trip
    /\ last_round_trip_real' =
          IF HasEvent(SubSeq(s.trace, Len(trace) + 1, Len(s.trace)), "identity")
          THEN real ELSE last_round_trip_real
    /\ UNCHANGED <<now, real, authVars, raceVars>>

\* The handler returns, or raises s.exc to the caller.
Finish(s) ==
    /\ pc' = "done"
    /\ frame' = NoFrame
    /\ sign_in_time' = s.sign_in_time
    /\ session' = s.session
    /\ trace' = IF s.exc = "" THEN Append(s.trace, Ev("return")) ELSE s.trace
    /\ mark' = Len(trace)
    /\ res' = s.res
    /\ outcome' = IF s.exc = "" THEN "returned" ELSE s.exc
    /\ last_round_trip' =
          IF HasEvent(SubSeq(s.trace, Len(trace) + 1, Len(s.trace)), "identity")
          THEN now ELSE last_round_trip
    /\ last_round_trip_real' =
          IF HasEvent(SubSeq(s.trace, Len(trace) + 1, Len(s.trace)), "identity")
          THEN real ELSE last_round_trip_real
    /\ UNCHANGED <<now, real, authVars, raceVars>>

Goto(s, fr) == IF fr.stage = "return" THEN Finish(s) ELSE Continue(s, fr)

\* The caller takes the result and is free to call again.
Return ==
    /\ pc = "done"
    /\ pc' = "idle"
    /\ op' = ""
    /\ arg' = <<>>
    /\ trace' = <<>>
    /\ mark' = 0
    /\ res' = NoRes
    /\ outcome' = ""
    /\ UNCHANGED <<phase, now, sign_in_time, session, frame,
                   last_round_trip, real, last_round_trip_real, authVars, raceVars>>

Construct_lazy(id) ==
    /\ phase = "new"
    /\ pc = "idle"
    /\ op' = "__init__"
    /\ arg' = <<>>
    /\ Finish(Entry)
    /\ phase' = "ready"

(***************************************************************************)
(* SupabaseDal.__init__: sign_in_time = 0, then sign_in(); an exception    *)
(* of the sign-in leaves no SupabaseDal.                                   *)
(***************************************************************************)
Construct(id) ==
    /\ phase = "new"
    /\ pc = "idle"
    /\ op' = "__init__"
    /\ arg' = <<>>
    /\ LET s == sign_in(Entry, id)
       IN  /\ Finish(s)
           /\ phase' = IF s.exc = "" THEN "ready" ELSE "failed"

\* SupabaseDal.sign_in called by the owner of the SupabaseDal.
SignIn(id) ==
    /\ Call("sign_in", <<>>)
    /\ Finish(sign_in(Entry, id))

(***************************************************************************)
(* The caller-facing operations that send one request.                     *)
(***************************************************************************)
\* SupabaseDal.persist_services
persist_services(services, response) ==
    /\ Call("persist_services", services)
    /\ IF services = <<>>
       THEN Finish(Entry)
       ELSE LET s == execute(Entry, SERVICES_TABLE, "upsert", <<>>,
                        Rows([k \in DOMAIN services |->
                                to_service(services[k])]),
                        response)
            IN  IF s.res.status_code \notin {200, 201}
                THEN \E id \in IdentityOutcomes :
                    Finish(raise(handle_supabase_error(log(s), id)))
                ELSE Finish(s)

\* SupabaseDal.get_active_services
get_active_services(response) ==
    /\ Call("get_active_services", <<>>)
    /\ LET s == execute(Entry, SERVICES_TABLE, "select", <<>>,
                        filter, response)
       IN  IF s.res.status_code \notin {200}
           THEN \E id \in IdentityOutcomes :
                    Finish(raise(handle_supabase_error(log(s), id)))
           ELSE Finish(s)

\* SupabaseDal.has_cluster_findings
has_cluster_findings(response) ==
    /\ Call("has_cluster_findings", <<>>)
    /\ LET s == execute(Entry, ISSUES_TABLE, "select", <<>>,
                        filter, response)
       IN  IF s.res.status_code \notin {200}
           THEN \E id \in IdentityOutcomes :
                    Finish(raise(handle_supabase_error(log(s), id)))
           ELSE Finish(s)

get_active_nodes_eager(response) ==
    /\ Call("get_active_nodes", <<>>)
    /\ LET s == execute(Entry, NODES_TABLE, "select", <<>>,
                        filter, response)
       IN  \E id \in IdentityOutcomes :
               IF s.res.status_code \notin {200}
               THEN Finish(raise(handle_supabase_error(log(s), id)))
               ELSE Finish(handle_supabase_error(s, id))

\* SupabaseDal.get_active_nodes
get_active_nodes(response) ==
    /\ Call("get_active_nodes", <<>>)
    /\ LET s == execute(Entry, NODES_TABLE, "select", <<>>,
                        filter, response)
       IN  IF s.res.status_code \notin {200}
           THEN \E id \in IdentityOutcomes :
                    Finish(raise(handle_supabase_error(log(s), id)))
           ELSE Finish(s)

\* SupabaseDal.publish_nodes
publish_nodes(nodes, response) ==
    /\ Call("publish_nodes", nodes)
    /\ IF nodes = <<>>
       THEN Finish(Entry)
       ELSE LET s == execute(Entry, NODES_TABLE, "upsert", <<>>,
                        Rows([k \in DOMAIN nodes |->
                                __to_db_node(nodes[k])]),
                        response)
            IN  IF s.res.status_code \notin {200, 201}
                THEN \E id \in IdentityOutcomes :
                    Finish(raise(handle_supabase_error(log(s), id)))
                ELSE Finish(s)

\* SupabaseDal.get_active_jobs
get_active_jobs(response) ==
    /\ Call("get_active_jobs", <<>>)
    /\ LET s == execute(Entry, JOBS_TABLE, "select", <<>>,
                        filter, response)
       IN  IF s.res.status_code \notin {200}
           THEN \E id \in IdentityOutcomes :
                    Finish(raise(handle_supabase_error(log(s), id)))
           ELSE Finish(s)

\* SupabaseDal.publish_jobs
publish_jobs(jobs, response) ==
    /\ Call("publish_jobs", jobs)
    /\ IF jobs = <<>>
       THEN Finish(Entry)
       ELSE LET s == execute(Entry, JOBS_TABLE, "upsert", <<>>,
                        Rows([k \in DOMAIN jobs |->
                                __to_db_job(jobs[k])]),
                        response)
            IN  IF s.res.status_code \notin {200, 201}
                THEN \E id \in IdentityOutcomes :
                    Finish(raise(handle_supabase_error(log(s), id)))
                ELSE Finish(s)

valid_deleted_statuses_short == {204, 200}

\* remove_deleted_job's valid_deleted_statuses
valid_deleted_statuses == {204, 200, 202}

remove_deleted_job_quiet(job, response) ==
    /\ Call("remove_deleted_job", job)
    /\ IF job = "None"
       THEN Finish(Entry)
       ELSE LET s == Sent(Entry, JOBS_TABLE, "delete", <<>>, filter, response,
                          __delete_patch(response))
            IN  IF s.exc # "" THEN Finish(s)
                ELSE IF s.res.status_code \notin valid_deleted_statuses
                THEN \E id \in IdentityOutcomes :
                    Finish(handle_supabase_error(log(s), id))
                ELSE Finish(s)

\* SupabaseDal.remove_deleted_job
remove_deleted_job(job, response) ==
    /\ Call("remove_deleted_job", job)
    /\ IF job = "None"
       THEN Finish(Entry)
       ELSE LET s == Sent(Entry, JOBS_TABLE, "delete", <<>>, filter, response,
                          __delete_patch(response))
            IN  IF s.exc # "" THEN Finish(s)
                ELSE IF s.res.status_code \notin valid_deleted_statuses
                THEN \E id \in IdentityOutcomes :
                    Finish(raise(handle_supabase_error(log(s), id)))
                ELSE Finish(s)

\* SupabaseDal.get_active_helm_release
get_active_helm_release(response) ==
    /\ Call("get_active_helm_release", <<>>)
    /\ LET s == execute(Entry, HELM_RELEASES_TABLE, "select", <<>>,
                        filter, response)
       IN  IF s.res.status_code \notin {200}
           THEN \E id \in IdentityOutcomes :
                    Finish(raise(handle_supabase_error(log(s), id)))
           ELSE Finish(s)

\* SupabaseDal.publish_helm_releases
publish_helm_releases(helm_releases, response) ==
    /\ Call("publish_helm_releases", helm_releases)
    /\ IF helm_releases = <<>>
       THEN Finish(Entry)
       ELSE LET s == execute(Entry, HELM_RELEASES_TABLE, "upsert", <<>>,
                        Rows([k \in DOMAIN helm_releases |->
                                __to_db_helm_release(helm_releases[k])]),
                        response)
            IN  IF s.res.status_code \notin {200, 201}
                THEN \E id \in IdentityOutcomes :
                    Finish(raise(handle_supabase_error(log(s), id)))
                ELSE Finish(s)

publish_cluster_status_raising(cluster_status, response) ==
    /\ Call("publish_cluster_status", cluster_status)
    /\ LET s == execute(Entry, CLUSTERS_STATUS_TABLE, "upsert", <<>>,
                        {to_db_cluster_status(cluster_status)}, response)
       IN  IF s.res.status_code \notin {200, 201}
           THEN \E id \in IdentityOutcomes :
                    Finish(raise(handle_supabase_error(log(s), id)))
           ELSE Finish(s)

\* SupabaseDal.publish_cluster_status: logs, recovers, does not raise.
publish_cluster_status(cluster_status, response) ==
    /\ Call("publish_cluster_status", cluster_status)
    /\ LET s == execute(Entry, CLUSTERS_STATUS_TABLE, "upsert", <<>>,
                        {to_db_cluster_status(cluster_status)}, response)
       IN  IF s.res.status_code \notin {200, 201}
           THEN \E id \in IdentityOutcomes :
                    Finish(handle_supabase_error(log(s), id))
           ELSE Finish(s)

\* SupabaseDal.get_active_namespaces
get_active_namespaces(response) ==
    /\ Call("get_active_namespaces", <<>>)
    /\ LET s == execute(Entry, NAMESPACES_TABLE, "select", <<>>,
                        filter, response)
       IN  IF s.res.status_code \notin {200}
           THEN \E id \in IdentityOutcomes :
                    Finish(raise(handle_supabase_error(log(s), id)))
           ELSE Finish(s)

publish_namespaces_unguarded(namespaces, response) ==
    /\ Call("publish_namespaces", namespaces)
    /\ LET s == execute(Entry, NAMESPACES_TABLE, "upsert", <<>>,
                        Rows([k \in DOMAIN namespaces |->
                                __to_db_namespace(namespaces[k])]),
                        response)
       IN  IF s.res.status_code \notin {200, 201}
           THEN \E id \in IdentityOutcomes :
                    Finish(raise(handle_supabase_error(log(s), id)))
           ELSE Finish(s)

\* SupabaseDal.publish_namespaces
publish_namespaces(namespaces, response) ==
    /\ Call("publish_namespaces", namespaces)
    /\ IF namespaces = <<>>
       THEN Finish(Entry)
       ELSE LET s == execute(Entry, NAMESPACES_TABLE, "upsert", <<>>,
                        Rows([k \in DOMAIN namespaces |->
                                __to_db_namespace(namespaces[k])]),
                        response)
            IN  IF s.res.status_code \notin {200, 201}
                THEN \E id \in IdentityOutcomes :
                    Finish(raise(handle_supabase_error(log(s), id)))
                ELSE Finish(s)

\* SupabaseDal.publish_cluster_nodes: logs, recovers, does not raise.
publish_cluster_nodes(response) ==
    /\ Call("publish_cluster_nodes", <<>>)
    /\ LET s == Sent(Entry, RpcTable(UPDATE_CLUSTER_NODE_COUNT), "rpc", <<>>,
                     params, response, __rpc_patch(response))
       IN  IF s.exc # "" THEN Finish(s)
           ELSE IF s.res.status_code \notin {200, 201, 204}
           THEN \E id \in IdentityOutcomes :
                    Finish(handle_supabase_error(log(s), id))
           ELSE Finish(s)

(***************************************************************************)
(* SupabaseDal.persist_finding, one action per request it sends.           *)
(***************************************************************************)
\* The split of the enrichments, up to the first request (or the return).
persist_finding(finding) ==
    /\ Call("persist_finding", finding)
    /\ Goto(Entry, ScanFrom(finding, 1, 1))

persist_scan_insert_lenient(response) ==
    /\ pc = "running"
    /\ frame.stage = "scan_insert"
    /\ UNCHANGED <<phase, op, arg>>
    /\ LET s == execute(Entry, SCANS_RESULT_TABLE, "insert",
                        <<frame.i, frame.j>>,
                        {__to_db_scanResult("ScanReportRow")}, response)
       IN  IF s.res.status_code \notin {200, 201}
           THEN \E id \in IdentityOutcomes :
                    Continue(handle_supabase_error(log(s), id),
                             [frame EXCEPT !.stage = "scan_meta"])
           ELSE Continue(s, [frame EXCEPT !.stage = "scan_meta"])

\* persist_scan: the bulk insert of a block's results.
persist_scan_insert(response) ==
    /\ pc = "running"
    /\ frame.stage = "scan_insert"
    /\ UNCHANGED <<phase, op, arg>>
    /\ LET s == execute(Entry, SCANS_RESULT_TABLE, "insert",
                        <<frame.i, frame.j>>,
                        {__to_db_scanResult("ScanReportRow")}, response)
       IN  IF s.res.status_code \notin {200, 201}
           THEN \E id \in IdentityOutcomes :
                    Finish(raise(handle_supabase_error(log(s), id)))
           ELSE Continue(s, [frame EXCEPT !.stage = "scan_meta"])

\* persist_scan: the insert_scan_meta RPC of the block, then the next
\* block, the next scan, or what follows the scans.
persist_scan_meta(response) ==
    /\ pc = "running"
    /\ frame.stage = "scan_meta"
    /\ UNCHANGED <<phase, op, arg>>
    /\ LET s == Sent(Entry, RpcTable(INSERT_SCAN_META), "rpc",
                     <<frame.i, frame.j>>, params, response,
                     __rpc_patch(response))
       IN  IF s.exc # "" THEN Finish(s)
           ELSE IF s.res.status_code \notin {200, 201, 204}
           THEN \E id \in IdentityOutcomes :
                    Finish(raise(handle_supabase_error(log(s), id)))
           ELSE Goto(s, ScanFrom(arg, frame.i, frame.j + 1))

persist_evidence_aborting(response) ==
    /\ pc = "running"
    /\ frame.stage = "evidence"
    /\ UNCHANGED <<phase, op, arg>>
    /\ LET s == execute(Entry, EVIDENCE_TABLE, "insert", <<frame.i>>,
                        to_evidence_json, response)
           next == IF frame.i < Len(NonScans(arg))
                   THEN [frame EXCEPT !.i = frame.i + 1]
                   ELSE [stage |-> "issue", i |-> 0, j |-> 0]
       IN  IF s.res.status_code # 201
           THEN Finish(log(s))
           ELSE Continue(s, next)

\* The evidence row of one non-scan enrichment: a failure is logged only.
persist_evidence(response) ==
    /\ pc = "running"
    /\ frame.stage = "evidence"
    /\ UNCHANGED <<phase, op, arg>>
    /\ LET s == execute(Entry, EVIDENCE_TABLE, "insert", <<frame.i>>,
                        to_evidence_json, response)
           next == IF frame.i < Len(NonScans(arg))
                   THEN [frame EXCEPT !.i = frame.i + 1]
                   ELSE [stage |-> "issue", i |-> 0, j |-> 0]
       IN  IF s.res.status_code # 201
           THEN Continue(log(s), next)
           ELSE Continue(s, next)

persist_issue_raising(response) ==
    /\ pc = "running"
    /\ frame.stage = "issue"
    /\ UNCHANGED <<phase, op, arg>>
    /\ LET s == execute(Entry, ISSUES_TABLE, "insert", <<>>,
                        to_finding_json, response)
       IN  IF s.res.status_code # 201
           THEN \E id \in IdentityOutcomes :
                    Finish(raise(handle_supabase_error(log(s), id)))
           ELSE Finish(s)

\* The issue row of the finding: a failure is logged and recovered from.
persist_issue(response) ==
    /\ pc = "running"
    /\ frame.stage = "issue"
    /\ UNCHANGED <<phase, op, arg>>
    /\ LET s == execute(Entry, ISSUES_TABLE, "insert", <<>>,
                        to_finding_json, response)
       IN  IF s.res.status_code # 201
           THEN \E id \in IdentityOutcomes :
                    Finish(handle_supabase_error(log(s), id))
           ELSE Finish(s)

(***************************************************************************)
(* The environment's steps.                                                *)
(***************************************************************************)
\* Time passes (also while a call waits for the gateway), and time.time()
\* follows it.
Tick ==
    /\ phase = "ready"
    /\ pc # "done"
    /\ real < MaxTick
    /\ real' = real + 1
    /\ now' = now + 1
    /\ UNCHANGED <<phase, sign_in_time, session, pc, op, arg, frame,
                   trace, mark, res, outcome, last_round_trip,
                   last_round_trip_real, authVars, raceVars>>

\* The refresh timer thread: a refresh that fails leaves the client with a
\* token that lapses, or with no session, and schedules no further refresh.
RefreshFails(left) ==
    /\ phase = "ready"
    /\ pc # "done"
    /\ session = "valid"
    /\ session' = left
    /\ UNCHANGED <<phase, now, sign_in_time, pc, op, arg, frame, trace,
                   mark, res, outcome, last_round_trip, real,
                   last_round_trip_real, authVars, raceVars>>

(***************************************************************************)
(* The specification of the caller thread and its environment.             *)
(***************************************************************************)
Init ==
    /\ phase = "new"
    /\ now = Epoch
    /\ sign_in_time = 0
    /\ session = "none"
    /\ pc = "idle"
    /\ op = ""
    /\ arg = <<>>
    /\ frame = NoFrame
    /\ trace = <<>>
    /\ mark = 0
    /\ res = NoRes
    /\ outcome = ""
    /\ last_round_trip = -1
    /\ real = 0
    /\ last_round_trip_real = -1
    /\ current_session = None
    /\ rd = NoReader
    /\ headers = NoHeaders
    /\ issued = 0
    /\ thr = [th \in Threads |-> "idle"]

Bearer == _get_auth_headers(session)

Next ==
    \/ \E id \in IdentityOutcomes : Construct(id)
    \/ \E id \in IdentityOutcomes : SignIn(id)
    \/ \E services \in Lists, response \in ExecuteResponses(Bearer) : persist_services(services, response)
    \/ \E response \in ExecuteResponses(Bearer) :
          get_active_services(response)
    \/ \E response \in ExecuteResponses(Bearer) :
          has_cluster_findings(response)
    \/ \E response \in ExecuteResponses(Bearer) :
          get_active_nodes(response)
    \/ \E nodes \in Lists, response \in ExecuteResponses(Bearer) : publish_nodes(nodes, response)
    \/ \E response \in ExecuteResponses(Bearer) :
          get_active_jobs(response)
    \/ \E jobs \in Lists, response \in ExecuteResponses(Bearer) : publish_jobs(jobs, response)
    \/ \E job \in Jobs, response \in GatewayResponses(Bearer) : remove_deleted_job(job, response)
    \/ \E response \in ExecuteResponses(Bearer) :
          get_active_helm_release(response)
    \/ \E helm_releases \in Lists, response \in ExecuteResponses(Bearer) :
          publish_helm_releases(helm_releases, response)
    \/ \E cluster_status \in ClusterStatuses, response \in ExecuteResponses(Bearer) :
          publish_cluster_status(cluster_status, response)
    \/ \E response \in ExecuteResponses(Bearer) :
          get_active_namespaces(response)
    \/ \E namespaces \in Lists, response \in ExecuteResponses(Bearer) : publish_namespaces(namespaces, response)
    \/ \E response \in GatewayResponses(Bearer) :
          publish_cluster_nodes(response)
    \/ \E finding \in Findings : persist_finding(finding)
    \/ \E response \in ExecuteResponses(Bearer) :
          persist_scan_insert(response)
    \/ \E response \in GatewayResponses(Bearer) :
          persist_scan_meta(response)
    \/ \E response \in ExecuteResponses(Bearer) : persist_evidence(response)
    \/ \E response \in ExecuteResponses(Bearer) :
          persist_issue(response)
    \/ Return
    \/ Tick
    \/ \E left \in {"expired", "none"} : RefreshFails(left)

Spec == Init /\ [][Next]_vars

(***************************************************************************)
(* What the claims read from a state.                                      *)
(***************************************************************************)
\* The events of the latest step of the call.
StepEvents == SubSeq(trace, mark + 1, Len(trace))
Count(events, e) == Cardinality({k \in 1..Len(events) : events[k].e = e})
\* The latest step sent a request and took its failure path.
StepFailed ==
    /\ Len(StepEvents) > 0
    /\ StepEvents[1].e = "request"
    /\ HasEvent(StepEvents, "log")
StepSent == Len(StepEvents) > 0 /\ StepEvents[1].e = "request"

\* The expected-status sets as the specification states them, per kind.
StatedExpected(verb) ==
    CASE verb \in {"select", "insert", "upsert"} -> {200, 201}
      [] verb = "delete" -> {200, 202, 204}
      [] verb = "rpc" -> {200, 201, 204}

ListPublishers == {"persist_services", "publish_nodes", "publish_jobs",
                   "publish_helm_releases", "publish_namespaces"}

(***************************************************************************)
(* C1. A sign_in call, direct or through handle_supabase_error, performs   *)
(* the identity round-trip exactly when the clock is more than             *)
(* SUPABASE_LOGIN_RATE_LIMIT_SEC past the last round-trip (whether that    *)
(* one succeeded or raised; the first call always performs it); a call     *)
(* that does not is a no-op on sign_in_time and the session. So of two     *)
(* calls within the window one reaches the network, and a call after the   *)
(* window reaches it again.                                                *)
(***************************************************************************)
C1_SignInRateLimited ==
    [][(trace' # trace /\ HasEvent(StepEvents', "sign_in")) =>
          /\ Count(StepEvents', "sign_in") = 1
          /\ HasEvent(StepEvents', "identity") <=>
                (\/ last_round_trip = -1
                 \/ now > last_round_trip + SUPABASE_LOGIN_RATE_LIMIT_SEC)
          /\ Count(StepEvents', "identity") <= 1
          /\ ~HasEvent(StepEvents', "identity") =>
                /\ sign_in_time' = sign_in_time
                /\ session' = session]_vars

\* A sign_in call inside the window of an earlier round-trip: skipped.
C1_Witness ==
    /\ pc = "done"
    /\ HasEvent(StepEvents, "sign_in")
    /\ ~HasEvent(StepEvents, "identity")
    /\ last_round_trip > Epoch
    /\ now <= last_round_trip + SUPABASE_LOGIN_RATE_LIMIT_SEC

(***************************************************************************)
(* C2. Every gateway request of every operation whose response status is   *)
(* outside the expected set of its kind is followed, within the same step  *)
(* and before the operation raises or returns, by exactly one              *)
(* handle_supabase_error.                                                  *)
(***************************************************************************)
C2_EveryFailureRecovers ==
    (StepSent /\ res.status_code \notin StatedExpected(res.verb)) =>
        /\ Count(StepEvents, "handle_supabase_error") = 1
        /\ \A k \in 1..Len(StepEvents) :
              StepEvents[k].e \in {"raise", "return"} =>
                  \E h \in 1..(k - 1) : StepEvents[h].e = "handle_supabase_error"

(***************************************************************************)
(* C3. handle_supabase_error never lets the sign-in's exception out: a     *)
(* call that went through it ends in the operation's own outcome (its      *)
(* return, or its own Exception), whatever the identity service did.       *)
(***************************************************************************)
C3_RecoveryNeverPropagates ==
    HasEvent(trace, "handle_supabase_error") =>
        /\ outcome # "AuthError"
        /\ pc = "done" => outcome \in {"returned", "Exception"}

\* The sign-in inside the recovery raised, and the caller got the
\* operation's own exception.
C3_Witness ==
    /\ pc = "done"
    /\ \E k \in 1..Len(trace) :
          /\ trace[k].e = "identity"
          /\ trace[k].verb = "error"
          /\ \E h \in 1..(k - 1) : trace[h].e = "handle_supabase_error"
    /\ outcome = "Exception"

(***************************************************************************)
(* C4. persist_finding never raises to its caller, whatever the statuses   *)
(* of its scan writes, evidence inserts and issue insert.                  *)
(***************************************************************************)
C4_PersistFindingNeverRaises ==
    (op = "persist_finding" /\ pc = "done") => outcome = "returned"

\* The latest response is a failed write of persist_scan.
ScanWriteFailed ==
    \/ /\ res.table = SCANS_RESULT_TABLE
       /\ res.status_code \notin {200, 201}
    \/ /\ res.table = RpcTable(INSERT_SCAN_META)
       /\ res.status_code \notin {200, 201, 204}

\* C4, amended: persist_finding raises exactly when a scan-result insert
\* or a scan-metadata RPC returns an unexpected status (and then with
\* persist_scan's own Exception); no status of an evidence insert or of the
\* issue insert makes it raise.
C4_RaisesExactlyOnScanFailure ==
    (op = "persist_finding" /\ pc = "done") =>
        /\ outcome \in {"returned", "Exception"}
        /\ outcome = "Exception" <=> ScanWriteFailed

\* An evidence insert and the issue insert both failed; the call returned.
C4_Witness ==
    /\ op = "persist_finding"
    /\ pc = "done"
    /\ outcome = "returned"
    /\ res.table = ISSUES_TABLE
    /\ res.status_code = 500
    /\ \E k \in 1..(Len(trace) - 1) :
          /\ trace[k].e = "request"
          /\ trace[k].table = EVIDENCE_TABLE
          /\ trace[k + 1].e = "log"

(***************************************************************************)
(* C5. A request takes its failure path exactly when the status is         *)
(* outside the expected set of its kind: {200,201} for select, insert and  *)
(* upsert, {200,202,204} for delete, {200,201,204} for RPC.                *)
(***************************************************************************)
C5_StatedExpectedSets ==
    StepSent =>
        (HasEvent(StepEvents, "log") <=>
            res.status_code \notin StatedExpected(res.verb))

\* The sets the operations classify against.
AmendedExpected(table, verb) ==
    CASE verb = "select" -> {200}
      [] verb = "insert" /\ table \in {EVIDENCE_TABLE, ISSUES_TABLE} -> {201}
      [] verb = "insert" /\ table = SCANS_RESULT_TABLE -> {200, 201}
      [] verb = "upsert" -> {200, 201}
      [] verb = "delete" -> {200, 202, 204}
      [] verb = "rpc" -> {200, 201, 204}

\* C5, amended: the expected set is {200} for every select, {201} for the
\* evidence-row and issue-row inserts, {200,201} for the scan-result insert
\* and every upsert, {200,202,204} for delete and {200,201,204} for RPC; a
\* request takes its failure path exactly when the status is outside it.
C5_AmendedExpectedSets ==
    StepSent =>
        (HasEvent(StepEvents, "log") <=>
            res.status_code \notin AmendedExpected(res.table, res.verb))

\* A select answered 201 took the failure path and raised.
C5_Witness ==
    /\ pc = "done"
    /\ res.verb = "select"
    /\ res.status_code = 201
    /\ HasEvent(StepEvents, "log")
    /\ outcome = "Exception"

(***************************************************************************)
(* C6. No request is retried: within one call no request (table, verb,     *)
(* item) is sent twice, also not after a failure and a re-authentication.  *)
(***************************************************************************)
C6_NoRetry ==
    \A a, b \in 1..Len(trace) :
        (a < b /\ trace[a].e = "request" /\ trace[b].e = "request") =>
            <<trace[a].table, trace[a].verb, trace[a].item>>
                # <<trace[b].table, trace[b].verb, trace[b].item>>

\* A request failed, the recovery signed in anew, and the call ended with
\* that request sent once.
C6_Witness ==
    /\ pc = "done"
    /\ outcome = "Exception"
    /\ Count(trace, "request") = 1
    /\ \E k \in 1..Len(trace) : trace[k].e = "identity" /\ trace[k].verb = "ok"
    /\ session = "valid"

(***************************************************************************)
(* C7. A list-publishing operation called with an empty list returns at    *)
(* once: no gateway request, no sign-in, no exception, and the session     *)
(* and sign_in_time as they were.                                          *)
(***************************************************************************)
C7_EmptyListNoNetwork ==
    [][(pc = "idle" /\ op' \in ListPublishers /\ arg' = <<>>) =>
          /\ pc' = "done"
          /\ trace' = <<Ev("return")>>
          /\ outcome' = "returned"
          /\ session' = session
          /\ sign_in_time' = sign_in_time
          /\ last_round_trip' = last_round_trip]_vars

\* publish_namespaces([]) returned while the session was expired and the
\* cooldown over.
C7_Witness ==
    /\ pc = "done"
    /\ op = "publish_namespaces"
    /\ arg = <<>>
    /\ session = "expired"
    /\ now > sign_in_time + SUPABASE_LOGIN_RATE_LIMIT_SEC

(***************************************************************************)
(* C9. __delete_patch and __rpc_patch never raise on account of the body;  *)
(* the status_code they return is the HTTP status, the data is empty when  *)
(* the body is empty or not JSON, and a failure status still fails the     *)
(* calling operation.                                                      *)
(***************************************************************************)
C9_NormalizersKeepStatus ==
    (StepSent /\ res.verb \in {"delete", "rpc"}) =>
        /\ outcome # "JSONDecodeError"
        /\ res.status_code = res.http_status
        /\ res.body \in {"", "text"} => res.data \in {"", "{}"}
        /\ res.body = "json" => res.data = "parsed"
        /\ res.http_status \in {401, 404, 500} => HasEvent(StepEvents, "log")
        /\ (res.http_status = 500 /\ op = "remove_deleted_job") =>
              outcome = "Exception"

\* A delete answered 500 with a body that is not JSON: remove_deleted_job
\* raised on status 500.
C9_Witness ==
    /\ pc = "done"
    /\ op = "remove_deleted_job"
    /\ res.http_status = 500
    /\ res.body = "text"
    /\ res.status_code = 500
    /\ res.data = ""
    /\ outcome = "Exception"

(***************************************************************************)
(* C10. When an operation fails because its session has expired and the   *)
(* identity service does not refuse the credentials, the session is valid  *)
(* again when the operation ends (so the next operation is sent with a     *)
(* fresh token), at whatever time the failure happens.                     *)
(***************************************************************************)
C10_SelfHealsAtAnyTime ==
    (/\ pc = "done"
     /\ StepFailed
     /\ StepEvents[1].bearer = "expired"
     /\ res.status_code = 401
     /\ ~\E k \in 1..Len(StepEvents) :
            StepEvents[k].e = "identity" /\ StepEvents[k].verb # "ok")
        => session = "valid"

\* C10, amended: a failure that reaches handle_supabase_error more than
\* SUPABASE_LOGIN_RATE_LIMIT_SEC after the last sign-in attempt signs in
\* again, and the session is valid when the identity service accepts the
\* credentials; a failure within the cooldown window signs in nothing and
\* leaves the session as it was.
C10_SelfHealsAfterCooldown ==
    [][(trace' # trace /\ HasEvent(StepEvents', "handle_supabase_error")) =>
          IF now > sign_in_time + SUPABASE_LOGIN_RATE_LIMIT_SEC
          THEN /\ Count(StepEvents', "identity") = 1
               /\ (\E k \in 1..Len(StepEvents') :
                      StepEvents'[k].e = "identity" /\ StepEvents'[k].verb = "ok")
                  => session' = "valid"
          ELSE /\ ~HasEvent(StepEvents', "identity")
               /\ session' = session
               /\ sign_in_time' = sign_in_time]_vars

\* A request sent with the expired token failed, the recovery signed in,
\* and the session is valid.
C10_Witness ==
    /\ pc = "done"
    /\ StepFailed
    /\ StepEvents[1].bearer = "expired"
    /\ \E k \in 1..Len(StepEvents) :
          StepEvents[k].e = "identity" /\ StepEvents[k].verb = "ok"
    /\ session = "valid"

(***************************************************************************)
(* C11. remove_deleted_job(job) with a job sends exactly one delete         *)
(* request; answered 200, 202 or 204 it returns with no                    *)
(* handle_supabase_error and no sign-in; answered 404 or any other status  *)
(* it calls handle_supabase_error exactly once and then raises.            *)
(***************************************************************************)
C11_RemoveDeletedJob ==
    (op = "remove_deleted_job" /\ pc = "done" /\ arg = "job") =>
        /\ Count(trace, "request") = 1
        /\ trace[1].e = "request"
        /\ trace[1].table = JOBS_TABLE
        /\ trace[1].verb = "delete"
        /\ IF res.http_status \in {200, 202, 204}
           THEN /\ outcome = "returned"
                /\ ~HasEvent(trace, "handle_supabase_error")
                /\ ~HasEvent(trace, "sign_in")
                /\ ~HasEvent(trace, "identity")
           ELSE /\ outcome = "Exception"
                /\ Count(trace, "handle_supabase_error") = 1
                /\ trace[Len(trace)].e = "raise"
                /\ \E h \in 2..(Len(trace) - 1) :
                      trace[h].e = "handle_supabase_error"

\* The delete was answered 404: one recovery, then the Exception.
C11_Witness ==
    /\ op = "remove_deleted_job"
    /\ pc = "done"
    /\ res.http_status = 404
    /\ Count(trace, "handle_supabase_error") = 1
    /\ outcome = "Exception"

(***************************************************************************)
(* C12. persist_finding on a finding whose enrichments are all scans (and  *)
(* at least one) sends no insert to the Evidence or the Issues table; in   *)
(* every other case in which the scan writes succeed (a non-scan           *)
(* enrichment, or no enrichment at all) it sends exactly one issue-row     *)
(* insert.                                                                 *)
(***************************************************************************)
C12_ScanOnlyFindingWritesNoIssue ==
    op = "persist_finding" =>
        IF Len(Scans(arg)) > 0 /\ Len(NonScans(arg)) = 0
        THEN \A k \in 1..Len(trace) :
                trace[k].table \notin {EVIDENCE_TABLE, ISSUES_TABLE}
        ELSE (pc = "done" /\ outcome = "returned") =>
                Cardinality({k \in 1..Len(trace) :
                                /\ trace[k].e = "request"
                                /\ trace[k].table = ISSUES_TABLE
                                /\ trace[k].verb = "insert"}) = 1

\* A finding of scans only, its scan written: returned, no issue row.
C12_Witness ==
    /\ op = "persist_finding"
    /\ pc = "done"
    /\ outcome = "returned"
    /\ Len(Scans(arg)) > 0
    /\ Len(NonScans(arg)) = 0
    /\ \E k \in 1..Len(trace) : trace[k].verb = "rpc"
    /\ \A k \in 1..Len(trace) : trace[k].table # ISSUES_TABLE

(***************************************************************************)
(* C13. publish_cluster_status returns normally for every status of its    *)
(* upsert, and on an unexpected status logs and calls                      *)
(* handle_supabase_error exactly once; the list publishers (services,      *)
(* nodes, jobs, helm releases, namespaces) raise on every unexpected       *)
(* status, after that one recovery attempt.                                *)
(***************************************************************************)
C13_ClusterStatusBestEffort ==
    /\ (op = "publish_cluster_status" /\ pc = "done") =>
          /\ outcome = "returned"
          /\ Count(trace, "request") = 1
          /\ IF res.status_code \in {200, 201}
             THEN /\ ~HasEvent(trace, "log")
                  /\ ~HasEvent(trace, "handle_supabase_error")
             ELSE /\ trace[2].e = "log"
                  /\ Count(trace, "handle_supabase_error") = 1
    /\ (op \in ListPublishers /\ pc = "done" /\ arg # <<>>) =>
          IF res.status_code \in {200, 201}
          THEN outcome = "returned"
          ELSE /\ outcome = "Exception"
               /\ Count(trace, "handle_supabase_error") = 1
               /\ trace[Len(trace)].e = "raise"
               /\ \E h \in 2..(Len(trace) - 1) :
                     trace[h].e = "handle_supabase_error"

\* The upsert of the cluster status was answered 500: logged, recovered,
\* returned.
C13_Witness ==
    /\ op = "publish_cluster_status"
    /\ pc = "done"
    /\ res.status_code = 500
    /\ Count(trace, "handle_supabase_error") = 1
    /\ outcome = "returned"

(***************************************************************************)
(* C14. Every request of every operation is scoped by the SupabaseDal's    *)
(* own account_id and cluster: every row it writes carries them, injected  *)
(* by the SupabaseDal, and every select or delete filters on exactly       *)
(* them.                                                                   *)
(***************************************************************************)
C14_EveryRequestTenantScoped ==
    \A k \in 1..Len(trace) :
        trace[k].e = "request" =>
            trace[k].scope = {Scoped(account_id, cluster)}

C17_EvidenceBatchNeverAborts ==
    (/\ op = "persist_finding"
     /\ pc = "done"
     /\ Len(NonScans(arg)) >= 1
     /\ ~ScanWriteFailed) =>
        LET evidence == SelectSeq(trace, LAMBDA ev :
                            ev.e = "request" /\ ev.table = EVIDENCE_TABLE)
            requests == SelectSeq(trace, LAMBDA ev : ev.e = "request")
            issues == SelectSeq(trace, LAMBDA ev :
                            ev.e = "request" /\ ev.table = ISSUES_TABLE)
        IN  /\ outcome = "returned"
            /\ Len(evidence) = Len(NonScans(arg))
            /\ \A n \in 1..Len(evidence) :
                  evidence[n].item = <<n>> /\ evidence[n].verb = "insert"
            /\ Len(issues) = 1
            /\ requests[Len(requests)].table = ISSUES_TABLE
            /\ SubSeq(requests, Len(requests) - Len(evidence),
                      Len(requests) - 1) = evidence

\* The first of two evidence inserts failed; the second and the issue row
\* were sent all the same.
C17_Witness ==
    /\ op = "persist_finding"
    /\ pc = "done"
    /\ outcome = "returned"
    /\ Len(NonScans(arg)) = 2
    /\ trace[1].table = EVIDENCE_TABLE
    /\ trace[2].e = "log"
    /\ trace[3].table = EVIDENCE_TABLE
    /\ res.table = ISSUES_TABLE
    /\ res.status_code = 201

(***************************************************************************)
(* C18. Constructing a SupabaseDal performs exactly one identity           *)
(* round-trip, before any gateway request: sign_in_time = 0 does not       *)
(* suppress it; and that attempt starts the cooldown that later sign_in    *)
(* and handle_supabase_error calls are held to.                            *)
(***************************************************************************)
C18_ConstructionSignsInOnce ==
    /\ (op = "__init__" /\ pc = "done") =>
          /\ Count(trace, "sign_in") = 1
          /\ Count(trace, "identity") = 1
          /\ ~HasEvent(trace, "request")
          /\ sign_in_time = now
    /\ phase = "new" => (trace = <<>> /\ sign_in_time = 0)
    /\ HasEvent(trace, "request") =>
          (phase = "ready" /\ last_round_trip >= Epoch)
    /\ phase \in {"ready", "failed"} =>
          (sign_in_time = last_round_trip /\ sign_in_time >= Epoch)
    /\ (pc = "done" /\ op # "__init__" /\ HasEvent(StepEvents, "sign_in")) =>
          IF HasEvent(StepEvents, "identity")
          THEN sign_in_time = now
          ELSE now <= sign_in_time + SUPABASE_LOGIN_RATE_LIMIT_SEC

\* A sign_in called within the cooldown of the construction's attempt was
\* suppressed.
C18_Witness ==
    /\ pc = "done"
    /\ op = "sign_in"
    /\ ~HasEvent(trace, "identity")
    /\ last_round_trip = Epoch
    /\ sign_in_time = Epoch
    /\ now > Epoch

SetClock(delta) ==
    /\ phase = "ready"
    /\ pc # "done"
    /\ delta # 0
    /\ now + delta - (Epoch + real) \in -MaxSkew..MaxSkew
    /\ now' = now + delta
    /\ UNCHANGED <<phase, sign_in_time, session, pc, op, arg, frame,
                   trace, mark, res, outcome, last_round_trip, real,
                   last_round_trip_real, authVars, raceVars>>

NextClock ==
    \/ \E id \in IdentityOutcomes : Construct(id)
    \/ \E id \in IdentityOutcomes : SignIn(id)
    \/ Return
    \/ Tick
    \/ \E delta \in -MaxSkew..MaxSkew : SetClock(delta)

SpecClock == Init /\ [][NextClock]_vars

(***************************************************************************)
(* C15. The cooldown follows the time that really passed, whatever is done *)
(* to the wall clock between two sign_in calls: a call performs the        *)
(* round-trip exactly when more than SUPABASE_LOGIN_RATE_LIMIT_SEC of real *)
(* time passed since the last attempt (or there was none), so a call after *)
(* the cooldown is never suppressed and a call within it never let         *)
(* through.                                                                *)
(***************************************************************************)
C15_CooldownFollowsRealTime ==
    [][(trace' # trace /\ HasEvent(StepEvents', "sign_in")) =>
          (HasEvent(StepEvents', "identity") <=>
              (\/ last_round_trip_real = -1
               \/ real > last_round_trip_real
                           + SUPABASE_LOGIN_RATE_LIMIT_SEC))]_vars

(***************************************************************************)
(* SpecRace: two threads whose operations failed, in                       *)
(* handle_supabase_error on the same SupabaseDal. sign_in takes no lock:   *)
(* its test, its write of sign_in_time and its call of the identity        *)
(* service are three statements, between which the other thread can run.   *)
(***************************************************************************)
\* The request of the thread's operation came back with an unexpected
\* status, and was logged.
request_failed(th) ==
    /\ phase = "ready"
    /\ pc = "idle"
    /\ thr[th] = "idle"
    /\ thr' = [thr EXCEPT ![th] = "handle_supabase_error"]
    /\ UNCHANGED <<dalVars, authVars>>

\* self.handle_supabase_error(): try: self.sign_in()
handle_supabase_error_enter(th) ==
    /\ thr[th] = "handle_supabase_error"
    /\ thr' = [thr EXCEPT ![th] = "sign_in"]
    /\ UNCHANGED <<dalVars, authVars>>

\* Back in the operation: raise Exception(...), to the thread's caller.
operation_raises(th) ==
    /\ thr[th] = "raise"
    /\ thr' = [thr EXCEPT ![th] = "idle"]
    /\ UNCHANGED <<dalVars, authVars>>

\* if time.time() > self.sign_in_time + SUPABASE_LOGIN_RATE_LIMIT_SEC:
sign_in_test(th) ==
    /\ thr[th] = "sign_in"
    /\ thr' = [thr EXCEPT ![th] =
                  IF now > sign_in_time + SUPABASE_LOGIN_RATE_LIMIT_SEC
                  THEN "store" ELSE "raise"]
    /\ UNCHANGED <<dalVars, authVars>>

\* self.sign_in_time = time.time()
sign_in_store(th) ==
    /\ thr[th] = "store"
    /\ thr' = [thr EXCEPT ![th] = "auth"]
    /\ sign_in_time' = now
    /\ UNCHANGED <<phase, now, session, pc, op, arg, frame, trace, mark,
                   res, outcome, last_round_trip, real,
                   last_round_trip_real, authVars>>

\* self.client.auth.sign_in(...): the round-trip, whose exception
\* handle_supabase_error catches.
sign_in_auth(th, id) ==
    /\ thr[th] = "auth"
    /\ thr' = [thr EXCEPT ![th] = "raise"]
    /\ session' = IF id.result = "ok" THEN "valid"
                  ELSE IF id.keeps THEN session ELSE "none"
    /\ last_round_trip' = now
    /\ last_round_trip_real' = real
    /\ UNCHANGED <<phase, now, sign_in_time, pc, op, arg, frame, trace,
                   mark, res, outcome, real, authVars>>

NextRace ==
    \/ \E id \in IdentityOutcomes : Construct(id)
    \/ Return
    \/ Tick
    \/ \E th \in Threads : request_failed(th)
    \/ \E th \in Threads : handle_supabase_error_enter(th)
    \/ \E th \in Threads : sign_in_test(th)
    \/ \E th \in Threads : sign_in_store(th)
    \/ \E th \in Threads, id \in IdentityOutcomes : sign_in_auth(th, id)
    \/ \E th \in Threads : operation_raises(th)

SpecRace == Init /\ [][NextRace]_vars

(***************************************************************************)
(* C19. The rate limit holds when two threads are in                       *)
(* handle_supabase_error at once: a thread performs the identity           *)
(* round-trip only when the clock is more than                             *)
(* SUPABASE_LOGIN_RATE_LIMIT_SEC past the last round-trip, so with the     *)
(* cooldown elapsed at most one of them reaches the identity service.      *)
(***************************************************************************)
C19_OneRoundTripUnderRace ==
    [][(\E th \in Threads : thr[th] = "auth" /\ thr'[th] = "raise") =>
          now > last_round_trip + SUPABASE_LOGIN_RATE_LIMIT_SEC]_vars

(***************************************************************************)
(* SpecAuth: _get_auth_headers on the request-building thread, while the   *)
(* auth client's other threads (the refresh timer started by               *)
(* RobustaAuthClient._set_timeout, a sign_in elsewhere) write              *)
(* auth.current_session. A write rebinds the attribute to a complete       *)
(* session object in one step.                                             *)
(***************************************************************************)
\* The write of auth.current_session, seen by a read in progress.
Cache(new) ==
    /\ current_session' = new
    /\ rd' = IF rd.pc = "idle" THEN rd
             ELSE [rd EXCEPT !.window = @ \cup {new}]
    /\ UNCHANGED <<headers, dalVars, raceVars>>

\* The timer thread's callback refreshed the token.
RefreshToken ==
    /\ current_session.present
    /\ issued < MaxTokens
    /\ issued' = issued + 1
    /\ Cache(Session(issued + 1))

\* auth.sign_in stored the session the identity service returned.
SaveSession ==
    /\ ~current_session.present
    /\ issued < MaxTokens
    /\ issued' = issued + 1
    /\ Cache(Session(issued + 1))

\* The auth client dropped its session (a sign-in that starts over, a
\* refresh that failed).
RemoveSession ==
    /\ current_session.present
    /\ issued' = issued
    /\ Cache(None)

\* session = auth.current_session if auth else None
GetSession ==
    /\ rd.pc = "idle"
    /\ rd' = [pc |-> "check", session |-> current_session,
              access_token |-> <<0, 0>>, window |-> {current_session}]
    /\ UNCHANGED <<current_session, headers, issued, dalVars, raceVars>>

access_token_mixed(session_read, auth_session) ==
    <<session_read.access_token[1], auth_session.access_token[2]>>

\* auth.session()["access_token"]: the token of the session read again.
access_token(session_read, auth_session) == auth_session.access_token

\* if session and session["access_token"]: the token of auth.session(),
\* a TypeError when that is None by now; else the API key.
ReadToken ==
    /\ rd.pc = "check"
    /\ IF rd.session.present /\ rd.session.access_token # <<0, 0>>
       THEN IF current_session.present
            THEN rd' = [rd EXCEPT
                          !.pc = "build",
                          !.access_token = access_token(rd.session, current_session)]
            ELSE rd' = [rd EXCEPT !.pc = "TypeError"]
       ELSE rd' = [rd EXCEPT !.pc = "build", !.access_token = supabase_key]
    /\ UNCHANGED <<current_session, headers, issued, dalVars, raceVars>>

\* headers = {"apiKey": ..., "Authorization": f"Bearer {access_token}"}
BuildHeaders ==
    /\ rd.pc = "build"
    /\ headers' = [apiKey |-> supabase_key, Authorization |-> rd.access_token,
                   first |-> rd.session, window |-> rd.window]
    /\ rd' = NoReader
    /\ UNCHANGED <<current_session, issued, dalVars, raceVars>>

\* The TypeError ends the request; the next one starts afresh.
ReadFaulted ==
    /\ rd.pc = "TypeError"
    /\ rd' = NoReader
    /\ UNCHANGED <<current_session, headers, issued, dalVars, raceVars>>

NextAuth ==
    \/ RefreshToken
    \/ SaveSession
    \/ RemoveSession
    \/ GetSession
    \/ ReadToken
    \/ BuildHeaders
    \/ ReadFaulted

SpecAuth == Init /\ [][NextAuth]_vars

C20_HeadersNeverFault == rd.pc # "TypeError"

====
